---- MODULE Spec2Model ----
(***************************************************************************)
(* The EEX DataLayer (src/eex/datalayer.py) as a state machine.            *)
(*                                                                         *)
(* Conventions                                                             *)
(*   - An optional Python argument is a sequence: None is << >> and a      *)
(*     given value x is <<x>>.  A uid that is given but is not an int      *)
(*     (say 1.5) is written as the two-element sequence <<1, 5>>.          *)
(*   - A parameter value is an integer number of 1e-8 units, so that       *)
(*     numpy's default tolerances are exact integers.                      *)
(*   - A Python dict that the code iterates over is a sequence in          *)
(*     insertion order (the iteration order of a dict).                    *)
(*   - A functional form is the record [parameters |-> n, units |-> u]:    *)
(*     n is the length of its parameter-name list.                         *)
(*   - A table (a pandas DataFrame indexed by atom_index) is a sequence of *)
(*     rows [atom_index |-> i, value |-> x]; every column of a property    *)
(*     holds x.  A float atom value is an integer number of units a tenth  *)
(*     of the property's rounding tolerance.                               *)
(*   - The term store (register_functional_forms, add_parameters) and the  *)
(*     atom store (add_atoms, get_atoms) share no state; Spec runs the     *)
(*     first and AtomSpec the second.                                      *)
(***************************************************************************)
EXTENDS Integers, Sequences, FiniteSets, TLC

VARIABLES
    functional_forms,   \* self._functional_forms : order -> (name -> form)
    terms,              \* self._terms : order -> entries <<[uid, name, params]>> in insertion order
    atom_metadata,      \* self._atom_metadata : property -> [counter, uvals, inv_uvals]
    store,              \* self.store : table name -> rows, as add_table left them
    added,              \* history: property -> the rows add_atoms was given for it
    closed,             \* whether self.store has been closed
    closes,             \* history: the number of calls of close()
    ret                 \* what the last call returned or raised

vars == <<functional_forms, terms, atom_metadata, store, added, closed, closes, ret>>

None == << >>
Some(x) == <<x>>

Abs(x) == IF x < 0 THEN -x ELSE x

Min(S) == CHOOSE x \in S : \A y \in S : x <= y

Range(f) == {f[i] : i \in DOMAIN f}

----------------------------------------------------------------------------
(* Bounds of the model and the inputs the calls are drawn from.            *)

\* at most this many term parameter entries are stored over all orders
MaxTerms == 3

\* at most this many rows are stored over all atom tables
MaxRows == 4

\* close() is called at most this many times
MaxCloses == 2

\* self._functional_forms / self._terms have the keys 2..7; the model keeps two
Orders == {2, 3}
\* an order that is not a key of self._functional_forms
BadOrder == 7 + 1

Names == {"harmonic", "custom"}

\* parameter values in 1e-8 units: 99999 is within tolerance of the two
\* others, which are not within tolerance of each other
Values == {99998, 99999, 100001}
Base == Min(Values) + 1

\* explicit form definitions, by length of the parameter list
Form1 == [parameters |-> 1, units |-> "own"]
Form3 == [parameters |-> 3, units |-> "own"]
BadForm == [parameters |-> 1, units |-> "malformed"]

\* the calls of register_functional_forms(order, name, form, utype) drawn
RegisterCalls ==
    ({2} \X Names \X {None} \X {<<"kcal">>})
    \cup {<<2, "harmonic", None, <<"kJ">>>>}
    \cup (Orders \X {"custom"} \X {<<Form1>>} \X {None})
    \cup ({2} \X {"harmonic"} \X {<<Form1>>, <<Form3>>} \X {None})
    \cup {<<3, "custom", None, None>>, <<BadOrder, "custom", <<Form1>>, None>>,
          <<3, "harmonic", <<BadForm>>, None>>}

\* the calls of add_parameters(order, term_name, term_parameters, uid, utype) drawn
AddCalls ==
    ({2} \X {"custom"} \X {<<v>> : v \in Values} \X {None, <<0>>, <<2>>} \X {None})
    \cup ({2} \X {"harmonic"} \X {<<Base>>, <<Base, Base>>, <<Base, Base, Base>>}
              \X {None, <<0>>, <<2>>} \X {None})
    \cup ({3} \X Names \X {<<Base>>} \X {None} \X {None})
    \cup {<<BadOrder, "custom", <<Base>>, None, None>>,
          <<2, "custom", <<Base>>, None, <<"kcal">>>>,
          <<2, "custom", <<Base>>, <<1, 5>>, None>>}

----------------------------------------------------------------------------
(* numpy.allclose, as called in add_parameters                             *)

\* numpy's defaults: atol = 1e-8 (one unit), rtol = 1e-5 (1 / RtolInv)
Atol == 1
RtolInv == 100000

\* numpy.isclose with a relative tolerance of 1e-4 in place of 1e-5
IsCloseLoose(a, b) == 10000 * Abs(a - b) <= 10000 * Atol + Abs(b)

\* numpy.isclose on two finite scalars: |a - b| <= atol + rtol * |b|
IsClose(a, b) == RtolInv * Abs(a - b) <= RtolInv * Atol + Abs(b)

\* whether two one-dimensional shapes broadcast
Broadcasts(la, lb) == la = lb \/ la = 1 \/ lb = 1

\* numpy.allclose(a, b) for one-dimensional a, b whose shapes broadcast
AllClose(a, b) ==
    LET n == IF Len(a) = 1 THEN Len(b) ELSE Len(a)
        at(s, i) == IF Len(s) = 1 THEN s[1] ELSE s[i]
    IN  \A i \in 1 .. n : IsClose(at(a, i), at(b, i))

\* (v[0] == term_name) and np.allclose(v[1:], params): "yes", "no", or
\* "ValueError" when numpy cannot broadcast the two shapes
MatchTest(v, term_name, params) ==
    IF v.name # term_name THEN "no"
    ELSE IF ~Broadcasts(Len(v.params), Len(params)) THEN "ValueError"
    ELSE IF AllClose(v.params, params) THEN "yes"
    ELSE "no"

----------------------------------------------------------------------------
(* Collaborators in eex/metadata.py                                        *)

\* metadata.sanitize_term_order_name: the callers here pass integer orders
sanitize_term_order_name(order) == order

\* the built-in catalog: "harmonic" (K, R0 / K, theta0) exists for every
\* order of the model, "custom" for none
BuiltinForms == [o \in Orders |-> ("harmonic" :> [parameters |-> 2, units |-> "default"])]

\* metadata.get_term_metadata(order, "forms", name); raises KeyError when absent
HasTermMetadata(order, name) == name \in DOMAIN BuiltinForms[order]
get_term_metadata(order, name) == BuiltinForms[order][name]

\* metadata.validate_functional_form_dict: the structural check of a form
validate_functional_form_dict(name, form) ==
    form.parameters \in Nat /\ form.units # "malformed"

\* metadata.validate_term_dict: a positional list must have one value per
\* parameter name of the form; returns the list
ValidTermDict(mdata, term_parameters) == Len(term_parameters) = mdata.parameters
validate_term_dict(term_name, mdata, term_parameters) == term_parameters

----------------------------------------------------------------------------
(* The result of a call: what it raised or returned, and the new state     *)

Raise(op, err) == [op |-> op, status |-> err, value |-> None]
Return(op, v) == [op |-> op, status |-> "ok", value |-> v]

----------------------------------------------------------------------------
(* register_functional_forms(order, name, form=None, utype=None)           *)

\* the registration without the already-registered check of the external path
RegisterFunctionalFormsOverwrite(ff, user_order, name, form, utype) ==
    LET order == sanitize_term_order_name(user_order)
        fail(err) == [status |-> err, forms |-> ff]
        put(f) ==
            IF ~validate_functional_form_dict(name, f) THEN fail("AssertionError")
            ELSE [status |-> "ok",
                  forms |-> [ff EXCEPT ![order] = (name :> f) @@ ff[order]]]
    IN  IF order \notin DOMAIN ff THEN fail("OrderKeyError")
        ELSE IF form = None /\ utype = None THEN fail("NoFormNoUnits")
        ELSE IF form = None THEN
            IF ~HasTermMetadata(order, name) THEN fail("NotFound")
            ELSE put([get_term_metadata(order, name) EXCEPT !.units = utype[1]])
        ELSE put(form[1])

\* the registration that leaves the units of the catalog form as they are
RegisterFunctionalFormsNoUnits(ff, user_order, name, form, utype) ==
    LET order == sanitize_term_order_name(user_order)
        fail(err) == [status |-> err, forms |-> ff]
        put(f) ==
            IF ~validate_functional_form_dict(name, f) THEN fail("AssertionError")
            ELSE [status |-> "ok",
                  forms |-> [ff EXCEPT ![order] = (name :> f) @@ ff[order]]]
    IN  IF order \notin DOMAIN ff THEN fail("OrderKeyError")
        ELSE IF form = None /\ utype = None THEN fail("NoFormNoUnits")
        ELSE IF form = None THEN
            IF ~HasTermMetadata(order, name) THEN fail("NotFound")
            ELSE put(get_term_metadata(order, name))
        ELSE
            IF name \in DOMAIN ff[order] THEN fail("AlreadyRegistered")
            ELSE put(form[1])

\* the registration that stores a registry of the one form under the order
RegisterFunctionalFormsReplace(ff, user_order, name, form, utype) ==
    LET order == sanitize_term_order_name(user_order)
        fail(err) == [status |-> err, forms |-> ff]
        put(f) ==
            IF ~validate_functional_form_dict(name, f) THEN fail("AssertionError")
            ELSE [status |-> "ok",
                  forms |-> [ff EXCEPT ![order] = (name :> f)]]
    IN  IF order \notin DOMAIN ff THEN fail("OrderKeyError")
        ELSE IF form = None /\ utype = None THEN fail("NoFormNoUnits")
        ELSE IF form = None THEN
            IF ~HasTermMetadata(order, name) THEN fail("NotFound")
            ELSE put([get_term_metadata(order, name) EXCEPT !.units = utype[1]])
        ELSE
            IF name \in DOMAIN ff[order] THEN fail("AlreadyRegistered")
            ELSE put(form[1])

\* the registration that refuses a name only when the path that registered
\* it is the path of the call
RegisterFunctionalFormsByPath(ff, user_order, name, form, utype) ==
    LET order == sanitize_term_order_name(user_order)
        fail(err) == [status |-> err, forms |-> ff]
        put(f) ==
            IF ~validate_functional_form_dict(name, f) THEN fail("AssertionError")
            ELSE [status |-> "ok",
                  forms |-> [ff EXCEPT ![order] = (name :> f) @@ ff[order]]]
        external == name \in DOMAIN ff[order] /\ ff[order][name].units = "own"
        internal == name \in DOMAIN ff[order] /\ ff[order][name].units # "own"
    IN  IF order \notin DOMAIN ff THEN fail("OrderKeyError")
        ELSE IF form = None /\ utype = None THEN fail("NoFormNoUnits")
        ELSE IF form = None THEN
            IF ~HasTermMetadata(order, name) THEN fail("NotFound")
            ELSE IF internal THEN fail("AlreadyRegistered")
            ELSE put([get_term_metadata(order, name) EXCEPT !.units = utype[1]])
        ELSE
            IF external THEN fail("AlreadyRegistered")
            ELSE put(form[1])

\* the registration that forgets a name when it refuses to register it again
RegisterFunctionalFormsDropOnFail(ff, user_order, name, form, utype) ==
    LET order == sanitize_term_order_name(user_order)
        fail(err) == [status |-> err, forms |-> ff]
        put(f) ==
            IF ~validate_functional_form_dict(name, f) THEN fail("AssertionError")
            ELSE [status |-> "ok",
                  forms |-> [ff EXCEPT ![order] = (name :> f) @@ ff[order]]]
    IN  IF order \notin DOMAIN ff THEN fail("OrderKeyError")
        ELSE IF form = None /\ utype = None THEN fail("NoFormNoUnits")
        ELSE IF form = None THEN
            IF ~HasTermMetadata(order, name) THEN fail("NotFound")
            ELSE put([get_term_metadata(order, name) EXCEPT !.units = utype[1]])
        ELSE
            IF name \in DOMAIN ff[order]
            THEN [status |-> "AlreadyRegistered",
                  forms |-> [ff EXCEPT ![order] =
                                [m \in (DOMAIN ff[order]) \ {name} |-> ff[order][m]]]]
            ELSE put(form[1])

\* the outcome: [status, forms] where forms is the new self._functional_forms
RegisterFunctionalForms(ff, user_order, name, form, utype) ==
    LET order == sanitize_term_order_name(user_order)
        fail(err) == [status |-> err, forms |-> ff]
        put(f) ==
            IF ~validate_functional_form_dict(name, f) THEN fail("AssertionError")
            ELSE [status |-> "ok",
                  forms |-> [ff EXCEPT ![order] = (name :> f) @@ ff[order]]]
    IN  IF order \notin DOMAIN ff THEN fail("OrderKeyError")
        ELSE IF form = None /\ utype = None THEN fail("NoFormNoUnits")
        ELSE IF form = None THEN
            \* an internal (built-in) form
            IF ~HasTermMetadata(order, name) THEN fail("NotFound")
            ELSE put([get_term_metadata(order, name) EXCEPT !.units = utype[1]])
        ELSE
            \* an external form
            IF name \in DOMAIN ff[order] THEN fail("AlreadyRegistered")
            ELSE put(form[1])

register_functional_forms(order, name, form, utype) ==
    LET r == RegisterFunctionalForms(functional_forms, order, name, form, utype)
    IN  /\ functional_forms' = r.forms
        /\ ret' = IF r.status = "ok" THEN Return("register_functional_forms", None)
                  ELSE Raise("register_functional_forms", r.status)
        /\ UNCHANGED <<terms, atom_metadata, store, added, closed, closes>>

----------------------------------------------------------------------------
(* add_parameters(order, term_name, term_parameters, uid=None, utype=None) *)

Uids(entries) == {entries[i].uid : i \in DOMAIN entries}

EntryOf(entries, uid) ==
    entries[CHOOSE i \in DOMAIN entries : entries[i].uid = uid]

\* for k, v in self._terms[order].items(): ... break
\* [status |-> "found", key |-> k], [status |-> "none"] or [status |-> "ValueError"]
RECURSIVE FindKey(_, _, _, _)
FindKey(entries, i, term_name, params) ==
    IF i > Len(entries) THEN [status |-> "none", key |-> None]
    ELSE LET m == MatchTest(entries[i], term_name, params)
         IN  IF m = "ValueError" THEN [status |-> "ValueError", key |-> None]
             ELSE IF m = "yes" THEN [status |-> "found", key |-> Some(entries[i].uid)]
             ELSE FindKey(entries, i + 1, term_name, params)

\* a new key one above the number of entries
NewKeySkip(entries) == Len(entries) + 1

\* the lowest number that we can add it at
NewKey(entries) ==
    IF Len(entries) = 0 THEN 0
    ELSE Min((0 .. Len(entries)) \ Uids(entries))

\* the checks of the call with the units check moved before the name check
ValidateTermAddUnitsFirst(ff, order, term_name, term_parameters, utype) ==
    IF order \notin DOMAIN ff THEN "OrderKeyError"
    ELSE IF utype # None THEN "UnitsTypeError"
    ELSE IF term_name \notin DOMAIN ff[order] THEN "NotRegistered"
    ELSE IF ~ValidTermDict(ff[order][term_name], term_parameters) THEN "ValidationError"
    ELSE "ok"

\* "Validate term add": the first failing check of the call, or "ok"
ValidateTermAdd(ff, order, term_name, term_parameters, utype) ==
    IF order \notin DOMAIN ff THEN "OrderKeyError"
    ELSE IF term_name \notin DOMAIN ff[order] THEN "NotRegistered"
    ELSE IF utype # None THEN "UnitsTypeError"
    ELSE IF ~ValidTermDict(ff[order][term_name], term_parameters) THEN "ValidationError"
    ELSE "ok"

\* add_parameters replacing the entry of a uid in use that does not match
AddParametersOverwrite(ff, tt, user_order, term_name, term_parameters, uid, utype) ==
    LET order == sanitize_term_order_name(user_order)
        fail(err) == [status |-> err, value |-> None, terms |-> tt]
        same(k) == [status |-> "ok", value |-> Some(k), terms |-> tt]
        insert(k, params) ==
            [status |-> "ok", value |-> Some(k),
             terms |-> [tt EXCEPT ![order] =
                 Append(@, [uid |-> k, name |-> term_name, params |-> params])]]
        replace(k, params) ==
            [status |-> "ok", value |-> Some(k),
             terms |-> [tt EXCEPT ![order] =
                 [i \in DOMAIN @ |-> IF @[i].uid = k
                                     THEN [uid |-> k, name |-> term_name, params |-> params]
                                     ELSE @[i]]]]
        valid == ValidateTermAdd(ff, order, term_name, term_parameters, utype)
    IN  IF valid # "ok" THEN fail(valid)
        ELSE
        LET params == validate_term_dict(term_name, ff[order][term_name], term_parameters)
            found == FindKey(tt[order], 1, term_name, params)
        IN  IF found.status = "ValueError" THEN fail("ValueError")
            ELSE IF uid = None THEN
                IF found.status = "found" THEN same(found.key[1])
                ELSE insert(NewKey(tt[order]), params)
            ELSE IF Len(uid) # 1 THEN fail("UidTypeError")
            ELSE IF uid[1] \in Uids(tt[order]) THEN
                LET match == MatchTest(EntryOf(tt[order], uid[1]), term_name, params)
                IN  IF match = "ValueError" THEN fail("ValueError")
                    ELSE IF match = "no" THEN replace(uid[1], params)
                    ELSE same(uid[1])
            ELSE insert(uid[1], params)

\* the outcome: [status, value, terms] where terms is the new self._terms
AddParameters(ff, tt, user_order, term_name, term_parameters, uid, utype) ==
    LET order == sanitize_term_order_name(user_order)
        fail(err) == [status |-> err, value |-> None, terms |-> tt]
        same(k) == [status |-> "ok", value |-> Some(k), terms |-> tt]
        insert(k, params) ==
            [status |-> "ok", value |-> Some(k),
             terms |-> [tt EXCEPT ![order] =
                 Append(@, [uid |-> k, name |-> term_name, params |-> params])]]
        valid == ValidateTermAdd(ff, order, term_name, term_parameters, utype)
    IN  IF valid # "ok" THEN fail(valid)
        ELSE
        LET params == validate_term_dict(term_name, ff[order][term_name], term_parameters)
            found == FindKey(tt[order], 1, term_name, params)
        IN  IF found.status = "ValueError" THEN fail("ValueError")
            ELSE IF uid = None THEN
                IF found.status = "found" THEN same(found.key[1])
                ELSE insert(NewKey(tt[order]), params)
            ELSE IF Len(uid) # 1 THEN fail("UidTypeError")
            ELSE IF uid[1] \in Uids(tt[order]) THEN
                LET match == MatchTest(EntryOf(tt[order], uid[1]), term_name, params)
                IN  IF match = "ValueError" THEN fail("ValueError")
                    ELSE IF match = "no" THEN fail("Conflict")
                    ELSE same(uid[1])
            ELSE insert(uid[1], params)

NumTerms(tt) == Len(tt[2]) + Len(tt[3])

add_parameters(order, term_name, term_parameters, uid, utype) ==
    LET r == AddParameters(functional_forms, terms, order, term_name,
                           term_parameters, uid, utype)
    IN  /\ NumTerms(r.terms) <= MaxTerms
        /\ terms' = r.terms
        /\ ret' = [op |-> "add_parameters", status |-> r.status, value |-> r.value]
        /\ UNCHANGED <<functional_forms, atom_metadata, store, added, closed, closes>>

----------------------------------------------------------------------------
(* Collaborators of the atom store: metadata, units, filelayer             *)

\* metadata.atom_metadata: mass is a float shared by many atoms, atom_type
\* an integer shared by many atoms, xyz a float triple unique per atom
AtomMetadataOf ==
    [mass      |-> [required_columns |-> {"mass"}, dtype |-> "float",
                    unique |-> FALSE, units |-> TRUE],
     atom_type |-> [required_columns |-> {"atom_type"}, dtype |-> "int",
                    unique |-> FALSE, units |-> FALSE],
     xyz       |-> [required_columns |-> {"X", "Y", "Z"}, dtype |-> "float",
                    unique |-> TRUE, units |-> TRUE]]

\* metadata.atom_property_to_column, in the order its items are visited
PropertyOrder == <<"mass", "atom_type", "xyz">>
Properties == Range(PropertyOrder)
APC_DICT == [k \in Properties |-> AtomMetadataOf[k].required_columns]

\* units.conversion_factor: the callers here convert from a unit ten times
\* the canonical one, and to a unit a tenth of the canonical one
UnitFactor == 10
conversion_factor(from, to) == UnitFactor

\* DataFrame.round(tol): to the nearest multiple of ten units, halves to even
Round(x) ==
    LET q == x \div 10
        r == x % 10
    IN  IF r < 5 THEN 10 * q
        ELSE IF r > 5 THEN 10 * (q + 1)
        ELSE IF q % 2 = 0 THEN 10 * q ELSE 10 * (q + 1)

\* store.add_table: rows added to a table follow the rows it holds
add_table(st, table_name, rows) ==
    IF table_name \in DOMAIN st
    THEN [st EXCEPT ![table_name] = @ \o rows]
    ELSE (table_name :> rows) @@ st

\* store.read_table raises when there is no such table
HasTable(st, table_name) == table_name \in DOMAIN st
read_table(st, table_name) == st[table_name]

----------------------------------------------------------------------------
(* _check_atoms_dict, _find_unqiue_atom_values, _build_atom_values         *)

EmptyIndex == [counter |-> -1, uvals |-> << >>, inv_uvals |-> << >>]

\* self._atom_metadata after _check_atoms_dict(property_name)
CheckAtomsDict(am, property_name) ==
    IF property_name \in DOMAIN am THEN am
    ELSE (property_name :> EmptyIndex) @@ am

\* the update without the assignment to inv_uvals
UpdateDictionaryNoInverse(param_dict, gb_idx) ==
    IF gb_idx \in DOMAIN param_dict.uvals THEN param_dict
    ELSE LET counter == param_dict.counter + 1
         IN  [param_dict EXCEPT !.counter = counter,
                                !.uvals = (gb_idx :> counter) @@ @]

\* the update with the counter incremented after the id is given
UpdateDictionaryPostIncrement(param_dict, gb_idx) ==
    IF gb_idx \in DOMAIN param_dict.uvals THEN param_dict
    ELSE LET counter == param_dict.counter
         IN  [counter |-> counter + 1,
              uvals |-> (gb_idx :> counter) @@ param_dict.uvals,
              inv_uvals |-> (counter :> gb_idx) @@ param_dict.inv_uvals]

\* "Update dictionary if necessary": the index table after value gb_idx
UpdateDictionary(param_dict, gb_idx) ==
    IF gb_idx \in DOMAIN param_dict.uvals THEN param_dict
    ELSE LET counter == param_dict.counter + 1
         IN  [counter |-> counter,
              uvals |-> (gb_idx :> counter) @@ param_dict.uvals,
              inv_uvals |-> (counter :> gb_idx) @@ param_dict.inv_uvals]

\* ret_df.loc[udf.index, property_name] = x: every row whose label is the
\* label of a row of the group gets x
SetLoc(ret_df, labels, x) ==
    [i \in DOMAIN ret_df |->
        IF ret_df[i].atom_index \in labels THEN [ret_df[i] EXCEPT !.value = x]
        ELSE ret_df[i]]

GroupLabels(df, gb_idx) == {df[i].atom_index : i \in {j \in DOMAIN df : df[j].value = gb_idx}}

BlankFrame(df) == [i \in DOMAIN df |-> [atom_index |-> df[i].atom_index, value |-> 0]]

\* the loop taking the groups in descending order
RECURSIVE UniqueLoopDescending(_, _, _, _)
UniqueLoopDescending(param_dict, df, ret_df, todo) ==
    IF todo = {} THEN [param_dict |-> param_dict, ret_df |-> ret_df]
    ELSE LET gb_idx == CHOOSE x \in todo : \A y \in todo : y <= x
             pd == UpdateDictionary(param_dict, gb_idx)
         IN  UniqueLoopDescending(pd, df,
                                  SetLoc(ret_df, GroupLabels(df, gb_idx), pd.uvals[gb_idx]),
                                  todo \ {gb_idx})

\* for gb_idx, udf in df.groupby(cols): the groups come in ascending order
RECURSIVE UniqueLoop(_, _, _, _)
UniqueLoop(param_dict, df, ret_df, todo) ==
    IF todo = {} THEN [param_dict |-> param_dict, ret_df |-> ret_df]
    ELSE LET gb_idx == Min(todo)
             pd == UpdateDictionary(param_dict, gb_idx)
         IN  UniqueLoop(pd, df, SetLoc(ret_df, GroupLabels(df, gb_idx), pd.uvals[gb_idx]),
                        todo \ {gb_idx})

\* the same without df.round(tol)
FindUniqueAtomValuesNoRound(param_dict, df0, property_name) ==
    UniqueLoop(param_dict, df0, BlankFrame(df0), {df0[i].value : i \in DOMAIN df0})

\* [param_dict, ret_df]: the index table and the frame of ids
FindUniqueAtomValues(param_dict, df0, property_name) ==
    LET df == IF AtomMetadataOf[property_name].dtype = "float"
              THEN [i \in DOMAIN df0 |-> [df0[i] EXCEPT !.value = Round(@)]]
              ELSE df0
    IN  UniqueLoop(param_dict, df, BlankFrame(df), {df[i].value : i \in DOMAIN df})

RECURSIVE BuildLoop(_, _, _, _)
BuildLoop(param_dict, df, ret_df, todo) ==
    IF todo = {} THEN [status |-> "ok", table |-> ret_df]
    ELSE LET gb_idx == Min(todo)
         IN  IF gb_idx \notin DOMAIN param_dict.inv_uvals
             THEN [status |-> "KeyError", table |-> << >>]
             ELSE BuildLoop(param_dict, df,
                            SetLoc(ret_df, GroupLabels(df, gb_idx), param_dict.inv_uvals[gb_idx]),
                            todo \ {gb_idx})

\* the ids of df returned as they are
BuildAtomValuesNoExpand(param_dict, df) == [status |-> "ok", table |-> df]

\* [status, table]: the ids of df expanded to values
BuildAtomValues(param_dict, df) ==
    BuildLoop(param_dict, df, BlankFrame(df), {df[i].value : i \in DOMAIN df})

----------------------------------------------------------------------------
(* _store_atom_table, _get_atom_table                                      *)

Scale(df, factor) == [i \in DOMAIN df |-> [df[i] EXCEPT !.value = @ * factor]]

\* [am, st]: self._atom_metadata and the store after the table is stored
StoreAtomTable(am0, st, table_name, df0, property_name, by_value, utype) ==
    LET am == CheckAtomsDict(am0, property_name)
        field_data == AtomMetadataOf[property_name]
        df == IF by_value /\ field_data.units /\ utype # None
              THEN Scale(df0, conversion_factor(utype[1], "canonical"))
              ELSE df0
    IN  IF by_value /\ ~field_data.unique
        THEN LET u == FindUniqueAtomValues(am[property_name], df, property_name)
             IN  [am |-> [am EXCEPT ![property_name] = u.param_dict],
                  st |-> add_table(st, table_name, u.ret_df)]
        ELSE [am |-> am, st |-> add_table(st, table_name, df)]

\* [status, table]
GetAtomTable(am, st, table_name, property_name, by_value, utype) ==
    LET field_data == AtomMetadataOf[property_name]
        scaled(t) == IF by_value /\ field_data.units /\ utype # None
                     THEN Scale(t, conversion_factor("canonical", utype[1]))
                     ELSE t
    IN  IF ~HasTable(st, table_name) THEN [status |-> "NoTable", table |-> << >>]
        ELSE IF by_value /\ ~field_data.unique
        THEN IF property_name \notin DOMAIN am THEN [status |-> "KeyError", table |-> << >>]
             ELSE LET b == BuildAtomValues(am[property_name], read_table(st, table_name))
                  IN  IF b.status # "ok" THEN b
                      ELSE [status |-> "ok", table |-> scaled(b.table)]
        ELSE [status |-> "ok", table |-> scaled(read_table(st, table_name))]

----------------------------------------------------------------------------
(* add_atoms(atom_df, property_name=None, by_value=False, utype=None)      *)
(* An atom_df is [kind, index, columns, rows]: its Python type, the name   *)
(* of its index, its other columns and its rows.  A utype is               *)
(* [kind |-> "none" | "dict" | "other", map |-> property -> unit].         *)

NoUtype == [kind |-> "none", map |-> << >>]
DictUtype(m) == [kind |-> "dict", map |-> m]

\* uval = utype[k] if k in utype else None
Uval(utype, k) == IF k \in DOMAIN utype.map THEN Some(utype.map[k]) ELSE None

\* the loop leaving at the first property it stores
AddLoopFirstOnly(am, st, atom_df, by_value, utype, n) ==
    LET found == {i \in n .. Len(PropertyOrder) : APC_DICT[PropertyOrder[i]] \subseteq atom_df.columns}
    IN  IF found = {} THEN [am |-> am, st |-> st]
        ELSE LET k == PropertyOrder[Min(found)]
             IN  StoreAtomTable(am, st, k, atom_df.rows, k, by_value, Uval(utype, k))

\* "Try to add all possible properties": the loop over APC_DICT.items()
RECURSIVE AddLoop(_, _, _, _, _, _)
AddLoop(am, st, atom_df, by_value, utype, n) ==
    IF n > Len(PropertyOrder) THEN [am |-> am, st |-> st]
    ELSE LET k == PropertyOrder[n]
         IN  IF APC_DICT[k] \subseteq atom_df.columns
             THEN LET r == StoreAtomTable(am, st, k, atom_df.rows, k, by_value,
                                          Uval(utype, k))
                  IN  AddLoop(r.am, r.st, atom_df, by_value, utype, n + 1)
             ELSE AddLoop(am, st, atom_df, by_value, utype, n + 1)

\* [status, value, am, st]
AddAtoms(am, st, atom_df, by_value, utype) ==
    LET fail(err) == [status |-> err, value |-> None, am |-> am, st |-> st]
    IN  IF atom_df.kind # "DataFrame" THEN fail("NotDataFrame")
        ELSE IF atom_df.index # "atom_index" THEN fail("IndexKeyError")
        ELSE IF utype.kind = "other" THEN fail("UtypeTypeError")
        ELSE IF ~\E k \in Properties : APC_DICT[k] \subseteq atom_df.columns
            THEN fail("NoKeyMatched")
        ELSE LET r == AddLoop(am, st, atom_df, by_value, utype, 1)
             IN  [status |-> "ok", value |-> Some(TRUE), am |-> r.am, st |-> r.st]

\* the history after the call: the rows given, per property that was stored
Added(ad, atom_df, by_value, utype) ==
    LET given(k) == [i \in DOMAIN atom_df.rows |->
                        [atom_index |-> atom_df.rows[i].atom_index,
                         value |-> atom_df.rows[i].value,
                         by_value |-> by_value,
                         unit |-> Uval(utype, k)]]
        before(k) == IF k \in DOMAIN ad THEN ad[k] ELSE << >>
        stored == {k \in Properties : APC_DICT[k] \subseteq atom_df.columns}
    IN  [k \in (DOMAIN ad) \cup stored |->
            IF k \in stored THEN before(k) \o given(k) ELSE ad[k]]

NumRows(st) == IF DOMAIN st = {} THEN 0 ELSE
    LET RECURSIVE Sum(_)
        Sum(S) == IF S = {} THEN 0
                  ELSE LET k == CHOOSE x \in S : TRUE IN Len(st[k]) + Sum(S \ {k})
    IN  Sum(DOMAIN st)

add_atoms(atom_df, by_value, utype) ==
    LET r == AddAtoms(atom_metadata, store, atom_df, by_value, utype)
    IN  /\ ~closed
        /\ NumRows(r.st) <= MaxRows
        /\ atom_metadata' = r.am
        /\ store' = r.st
        /\ added' = IF r.status = "ok" THEN Added(added, atom_df, by_value, utype)
                    ELSE added
        /\ ret' = [op |-> "add_atoms", status |-> r.status, value |-> r.value]
        /\ UNCHANGED <<functional_forms, terms, closed, closes>>

----------------------------------------------------------------------------
(* get_atoms(properties, by_value=False, utype=None)                       *)

\* str.lower on the property names a caller passes
Lower(x) == IF x = "MASS" THEN "mass" ELSE x

Labels(table) == [i \in DOMAIN table |-> table[i].atom_index]

\* the tables of properties[1..n], or the first error reading them
RECURSIVE ReadLoop(_, _, _, _, _, _)
ReadLoop(am, st, properties, by_value, utype, n) ==
    IF n = 0 THEN [status |-> "ok", tables |-> << >>]
    ELSE LET r == ReadLoop(am, st, properties, by_value, utype, n - 1)
             prop == properties[n]
         IN  IF r.status # "ok" THEN r
             ELSE LET t == GetAtomTable(am, st, prop, prop, by_value, Uval(utype, prop))
                  IN  IF t.status # "ok" THEN [status |-> t.status, tables |-> << >>]
                      ELSE [status |-> "ok", tables |-> Append(r.tables, t.table)]

\* pd.concat(df_data, axis=1) of tables that have the same labels in the
\* same order: one row per label position, one column per property
Concat(properties, tables) ==
    [i \in DOMAIN tables[1] |->
        [atom_index |-> tables[1][i].atom_index,
         data |-> [p \in Range(properties) |->
             tables[CHOOSE n \in DOMAIN properties : properties[n] = p][i].value]]]

\* get_atoms naming only the first property it does not know
GetAtomsFirstInvalid(am, st, properties0, by_value, utype) ==
    LET properties == [n \in DOMAIN properties0 |-> Lower(properties0[n])]
        bad == {n \in DOMAIN properties : properties[n] \notin Properties}
    IN  IF bad # {} THEN [status |-> "UnknownProperty", value |-> Some({properties[Min(bad)]})]
        ELSE IF utype.kind = "other" THEN [status |-> "UtypeTypeError", value |-> None]
        ELSE LET r == ReadLoop(am, st, properties, by_value, utype, Len(properties))
             IN  IF r.status # "ok" THEN [status |-> r.status, value |-> None]
                 ELSE IF \E n \in DOMAIN r.tables : Labels(r.tables[n]) # Labels(r.tables[1])
                     THEN [status |-> "ConcatLabelsDiffer", value |-> None]
                 ELSE [status |-> "ok", value |-> Some(Concat(properties, r.tables))]

\* [status, value]
GetAtoms(am, st, properties0, by_value, utype) ==
    LET properties == [n \in DOMAIN properties0 |-> Lower(properties0[n])]
        invalid_props == Range(properties) \ Properties
    IN  IF invalid_props # {} THEN [status |-> "UnknownProperty", value |-> Some(invalid_props)]
        ELSE IF utype.kind = "other" THEN [status |-> "UtypeTypeError", value |-> None]
        ELSE LET r == ReadLoop(am, st, properties, by_value, utype, Len(properties))
             IN  IF r.status # "ok" THEN [status |-> r.status, value |-> None]
                 ELSE IF \E n \in DOMAIN r.tables : Labels(r.tables[n]) # Labels(r.tables[1])
                     THEN [status |-> "ConcatLabelsDiffer", value |-> None]
                 ELSE [status |-> "ok", value |-> Some(Concat(properties, r.tables))]

get_atoms(properties, by_value, utype) ==
    LET r == GetAtoms(atom_metadata, store, properties, by_value, utype)
    IN  /\ ~closed
        /\ ret' = [op |-> "get_atoms", status |-> r.status, value |-> r.value]
        /\ UNCHANGED <<functional_forms, terms, atom_metadata, store, added, closed, closes>>

----------------------------------------------------------------------------
(* add_terms(order, df), read_terms(order), get_bonds(), get_angles()      *)
(* A term df is [columns, rows]: the names of its columns and its rows,    *)
(* each row a function from the columns to integers.                       *)

\* metadata.get_term_metadata(order, "index_columns"): the atom-index columns
\* of an order, named by position
IndexColumnNames == <<"atom1", "atom2", "atom3">>
index_columns(order) == {IndexColumnNames[i] : i \in 1 .. order}

\* metadata.sanitize_term_order_name on the names get_bonds and get_angles pass
TermOrderNames == [bonds |-> 2, angles |-> 3]

\* "term" + str(order)
TermTable(order) == IF order = 2 THEN "term2" ELSE IF order = 3 THEN "term3" ELSE "term4"

\* the frame stored with all the columns it came with
ProjectAll(df, cols) == df.rows

\* df[req_cols + ["term_index"]]
Project(df, cols) == [i \in DOMAIN df.rows |-> [c \in cols |-> df.rows[i][c]]]

\* add_terms looking for term_index before it looks for the index columns
AddTermsTermIndexFirst(ff, st, user_order, df) ==
    LET order == sanitize_term_order_name(user_order)
        fail(err) == [status |-> err, st |-> st]
    IN  IF order \notin DOMAIN ff THEN fail("OrderKeyError")
        ELSE LET req_cols == index_columns(order)
                 not_found == req_cols \ df.columns
             IN  IF "term_index" \notin df.columns THEN fail("NotImplemented")
                 ELSE IF not_found # {} THEN fail("MissingColumns")
                 ELSE [status |-> "ok",
                       st |-> add_table(st, TermTable(order),
                                        Project(df, req_cols \cup {"term_index"}))]

\* [status, st]
AddTerms(ff, st, user_order, df) ==
    LET order == sanitize_term_order_name(user_order)
        fail(err) == [status |-> err, st |-> st]
    IN  IF order \notin DOMAIN ff THEN fail("OrderKeyError")
        ELSE LET req_cols == index_columns(order)
                 not_found == req_cols \ df.columns
             IN  IF not_found # {} THEN fail("MissingColumns")
                 ELSE IF "term_index" \notin df.columns THEN fail("NotImplemented")
                 ELSE [status |-> "ok",
                       st |-> add_table(st, TermTable(order),
                                        Project(df, req_cols \cup {"term_index"}))]

\* the history after the call: the rows given, per term table
AddedTerms(ad, order, df) ==
    LET k == TermTable(order)
    IN  IF k \in DOMAIN ad THEN [ad EXCEPT ![k] = @ \o df.rows]
        ELSE (k :> df.rows) @@ ad

add_terms(order, df) ==
    LET r == AddTerms(functional_forms, store, order, df)
    IN  /\ ~closed
        /\ NumRows(r.st) <= MaxRows
        /\ store' = r.st
        /\ added' = IF r.status = "ok" THEN AddedTerms(added, order, df) ELSE added
        /\ ret' = [op |-> "add_terms", status |-> r.status, value |-> None]
        /\ UNCHANGED <<functional_forms, terms, atom_metadata, closed, closes>>

\* [status, value]
ReadTerms(ff, st, user_order) ==
    LET order == sanitize_term_order_name(user_order)
    IN  IF order \notin DOMAIN ff THEN [status |-> "OrderKeyError", value |-> None]
        ELSE IF ~HasTable(st, TermTable(order)) THEN [status |-> "NoTable", value |-> None]
        ELSE [status |-> "ok", value |-> Some(read_table(st, TermTable(order)))]

read_terms(order) ==
    LET r == ReadTerms(functional_forms, store, order)
    IN  /\ ~closed
        /\ ret' = [op |-> "read_terms", status |-> r.status, value |-> r.value]
        /\ UNCHANGED <<functional_forms, terms, atom_metadata, store, added, closed, closes>>

GetBonds(ff, st) == ReadTerms(ff, st, TermOrderNames["bonds"])
GetAngles(ff, st) == ReadTerms(ff, st, TermOrderNames["angles"])

get_bonds ==
    LET r == GetBonds(functional_forms, store)
    IN  /\ ~closed
        /\ ret' = [op |-> "get_bonds", status |-> r.status, value |-> r.value]
        /\ UNCHANGED <<functional_forms, terms, atom_metadata, store, added, closed, closes>>

get_angles ==
    LET r == GetAngles(functional_forms, store)
    IN  /\ ~closed
        /\ ret' = [op |-> "get_angles", status |-> r.status, value |-> r.value]
        /\ UNCHANGED <<functional_forms, terms, atom_metadata, store, added, closed, closes>>

----------------------------------------------------------------------------
(* write_lammps_file(dl, data, filename): the count block (lines 24-40).   *)
(* The blocks written after it read the layer and change nothing in it.    *)

\* dl.get_term_count(order): the number of stored terms of the order per
\* term_index, and their total under the key "total"
get_term_count(st, order) ==
    LET rows == IF HasTable(st, TermTable(order)) THEN read_table(st, TermTable(order))
                ELSE << >>
        uids == {rows[i]["term_index"] : i \in DOMAIN rows}
    IN  [counts |-> [u \in uids |-> Cardinality({i \in DOMAIN rows : rows[i]["term_index"] = u})],
         total |-> Len(rows)]

\* len(dl.get_term_count(order)): one key per uid and the key "total"
TermCountLen(st, order) == Cardinality(DOMAIN get_term_count(st, order).counts) + 1

\* the sizes of the terms that the count block writes
WriteSizes(st) ==
    [bonds |-> get_term_count(st, 2).total,
     angles |-> get_term_count(st, 3).total,
     dihedrals |-> get_term_count(st, 4).total,
     impropers |-> 0,
     bond_types |-> TermCountLen(st, 2) - 1,
     angle_types |-> TermCountLen(st, 2) - 1,
     dihedral_types |-> TermCountLen(st, 2) - 1,
     improper_types |-> 0]

write_lammps_file ==
    /\ ~closed
    /\ ret' = [op |-> "write_lammps_file", status |-> "ok", value |-> Some(WriteSizes(store))]
    /\ UNCHANGED <<functional_forms, terms, atom_metadata, store, added, closed, closes>>

----------------------------------------------------------------------------
(* close()                                                                 *)

\* store.close(): the store is closed afterwards, whatever it was before
store_close(c) == TRUE

\* a store that fails when it is closed again
CloseOnce(c) == [status |-> IF c THEN "StoreClosed" ELSE "ok", closed |-> TRUE]

\* [status, closed]
Close(c) == [status |-> "ok", closed |-> store_close(c)]

close ==
    LET r == Close(closed)
    IN  /\ closes < MaxCloses
        /\ closed' = r.closed
        /\ closes' = closes + 1
        /\ ret' = [op |-> "close", status |-> r.status, value |-> None]
        /\ UNCHANGED <<functional_forms, terms, atom_metadata, store, added>>

----------------------------------------------------------------------------
Init ==
    /\ functional_forms = [o \in Orders |-> << >>]
    /\ terms = [o \in Orders |-> << >>]
    /\ atom_metadata = << >>
    /\ store = << >>
    /\ added = << >>
    /\ closed = FALSE
    /\ closes = 0
    /\ ret = Return("__init__", None)

Register ==
    \E c \in RegisterCalls : register_functional_forms(c[1], c[2], c[3], c[4])

AddParams ==
    \E c \in AddCalls : add_parameters(c[1], c[2], c[3], c[4], c[5])

Next == Register \/ AddParams

Spec == Init /\ [][Next]_vars

\* the layer when add_parameters is never given a uid
AutoAddParams ==
    \E c \in {d \in AddCalls : d[4] = None} : add_parameters(c[1], c[2], c[3], c[4], c[5])

AutoNext == Register \/ AutoAddParams

AutoSpec == Init /\ [][AutoNext]_vars

\* atom values: 10 and 14 round to 10, 15 rounds to 20
AtomValues == {10, 14, 15}

Row(i, v) == [atom_index |-> i, value |-> v]
Frame(columns, rows) ==
    [kind |-> "DataFrame", index |-> "atom_index", columns |-> columns, rows |-> rows]

\* the row lists drawn: one atom, two atoms, and one atom given twice
RowInputs ==
    {<<Row(3, v)>> : v \in AtomValues}
    \cup {<<Row(1, v), Row(2, w)>> : v \in AtomValues, w \in AtomValues}
    \cup {<<Row(3, 10), Row(3, 15)>>}

\* the calls of add_atoms(atom_df, by_value, utype) drawn
AddAtomCalls ==
    ({Frame({"mass"}, r) : r \in RowInputs} \X {TRUE} \X {NoUtype})
    \cup ({Frame({"atom_type"}, <<Row(1, 14), Row(2, 15)>>),
           Frame({"mass", "X", "Y", "Z", "other"}, <<Row(2, 14)>>),
           Frame({"X", "Y"}, <<Row(1, 14)>>)}
          \X BOOLEAN \X {NoUtype, DictUtype([mass |-> "big", xyz |-> "big"])})
    \cup {<<[Frame({"mass"}, <<Row(1, 10)>>) EXCEPT !.kind = "list"], TRUE, NoUtype>>,
          <<[Frame({"mass"}, <<Row(1, 10)>>) EXCEPT !.index = "other"], TRUE, NoUtype>>,
          <<Frame({"mass"}, <<Row(1, 10)>>), TRUE, [kind |-> "other", map |-> << >>]>>}

\* the calls of get_atoms(properties, by_value, utype) drawn
GetAtomCalls ==
    ({<<"mass">>, <<"atom_type">>, <<"xyz">>, <<"MASS", "atom_type">>} \X BOOLEAN
        \X {NoUtype, DictUtype([mass |-> "small"])})
    \cup {<<<<"mass", "bogus1", "bogus2">>, FALSE, NoUtype>>,
          <<<<"mass">>, FALSE, [kind |-> "other", map |-> << >>]>>}

AddAtomsStep == \E c \in AddAtomCalls : add_atoms(c[1], c[2], c[3])

GetAtomsStep == \E c \in GetAtomCalls : get_atoms(c[1], c[2], c[3])

AtomNext == AddAtomsStep \/ GetAtomsStep

AtomSpec == Init /\ [][AtomNext]_vars

\* the calls of add_terms(order, df) drawn
TermRow(a1, a2, a3, ti) ==
    [c \in {"atom1", "atom2", "atom3", "term_index", "extra"} |->
        IF c = "atom1" THEN a1 ELSE IF c = "atom2" THEN a2 ELSE IF c = "atom3" THEN a3
        ELSE IF c = "term_index" THEN ti ELSE 7]
TermFrame(columns, rows) ==
    [columns |-> columns, rows |-> [i \in DOMAIN rows |-> [c \in columns |-> rows[i][c]]]]

AddTermCalls ==
    {<<2, TermFrame({"atom1", "atom2", "term_index", "extra"}, r)>> :
        r \in {<<TermRow(1, 2, 0, 0)>>, <<TermRow(2, 3, 0, 5)>>,
               <<TermRow(1, 2, 0, 0), TermRow(1, 3, 0, 1)>>}}
    \cup {<<3, TermFrame({"atom1", "atom2", "atom3", "term_index"}, <<TermRow(1, 2, 3, 1)>>)>>,
          <<3, TermFrame({"atom1", "atom2", "term_index"}, <<TermRow(1, 2, 0, 1)>>)>>,
          <<2, TermFrame({"atom1", "term_index"}, <<TermRow(1, 0, 0, 0)>>)>>,
          <<2, TermFrame({"atom1", "atom2"}, <<TermRow(1, 2, 0, 0)>>)>>,
          <<2, TermFrame({"atom2"}, <<TermRow(0, 2, 0, 0)>>)>>,
          <<BadOrder, TermFrame({"atom1", "atom2", "term_index"}, <<TermRow(1, 2, 0, 0)>>)>>}

\* the few calls of the other operations that run beside the term tables
LayerRegisterCalls ==
    {<<2, "harmonic", None, <<"kcal">>>>, <<2, "harmonic", <<Form3>>, None>>,
     <<3, "custom", <<Form1>>, None>>, <<3, "custom", None, <<"kcal">>>>, <<3, "custom", None, None>>}
LayerAddCalls ==
    {<<2, "harmonic", <<Base, Base>>, None, None>>, <<3, "custom", <<Base>>, <<5>>, None>>,
     <<2, "custom", <<Base>>, None, None>>}
LayerAtomCalls ==
    {<<Frame({"mass"}, <<Row(1, 14)>>), TRUE, NoUtype>>,
     <<Frame({"X", "Y"}, <<Row(1, 14)>>), TRUE, NoUtype>>}
LayerGetCalls == {<<<<"mass">>, TRUE, NoUtype>>, <<<<"bogus1">>, FALSE, NoUtype>>}

LayerRegister == \E c \in LayerRegisterCalls : register_functional_forms(c[1], c[2], c[3], c[4])
LayerAddParams == \E c \in LayerAddCalls : add_parameters(c[1], c[2], c[3], c[4], c[5])
LayerAddAtoms == \E c \in LayerAtomCalls : add_atoms(c[1], c[2], c[3])
LayerGetAtoms == \E c \in LayerGetCalls : get_atoms(c[1], c[2], c[3])
AddTermsStep == \E c \in AddTermCalls : add_terms(c[1], c[2])
ReadTermsStep == \E o \in Orders \cup {BadOrder} : read_terms(o)

LayerNext ==
    \/ LayerRegister \/ LayerAddParams \/ LayerAddAtoms \/ LayerGetAtoms
    \/ AddTermsStep \/ ReadTermsStep \/ get_bonds \/ get_angles \/ close
    \/ write_lammps_file

LayerSpec == Init /\ [][LayerNext]_vars

----------------------------------------------------------------------------
(* Vocabulary of the properties                                            *)

\* every argument list of add_parameters the properties range over
AddArgs ==
    (Orders \cup {BadOrder}) \X Names
        \X ({<<v>> : v \in Values} \cup {<<Base, Base>>, <<Base, Base, Base>>})
        \X {None, <<0>>, <<1>>, <<2>>, <<1, 5>>} \X {None, <<"kcal">>}

\* what the call c of add_parameters does in the state (ff, tt)
Call(ff, tt, c) == AddParameters(ff, tt, c[1], c[2], c[3], c[4], c[5])

\* c passes an order of the layer, a name registered for it, one value per
\* parameter of the registered form, and no units
ValidAdd(ff, c) ==
    /\ c[1] \in Orders
    /\ c[2] \in DOMAIN ff[c[1]]
    /\ Len(c[3]) = ff[c[1]][c[2]].parameters
    /\ c[5] = None

AutoUid(c) == c[4] = None
IntUid(c) == Len(c[4]) = 1

\* the valid calls without a uid, and those with an integer uid
AutoAdds(ff) == {c \in AddArgs : ValidAdd(ff, c) /\ AutoUid(c)}
UidAdds(ff) == {c \in AddArgs : ValidAdd(ff, c) /\ IntUid(c)}

\* the smallest non-negative integer that is not in S
SmallestUnused(S) ==
    CHOOSE n \in 0 .. Cardinality(S) : n \notin S /\ \A m \in 0 .. (n - 1) : m \in S

\* a stored parameter list p and a supplied one q are equal within the
\* tolerance of the store: |p - q| <= atol + rtol * |q| in every position
WithinTolerance(p, q) ==
    /\ Len(p) = Len(q)
    /\ \A i \in 1 .. Len(p) : 100000 * Abs(p[i] - q[i]) <= 100000 + Abs(q[i])

\* two calls for one order and form whose parameters are not within
\* tolerance of each other
Distinct(c1, c2) ==
    /\ c1[1] = c2[1] /\ c1[2] = c2[2]
    /\ ~WithinTolerance(c1[3], c2[3]) /\ ~WithinTolerance(c2[3], c1[3])

\* the entry e has the form name and parameters within tolerance of params
Matches(e, term_name, params) ==
    e.name = term_name /\ WithinTolerance(e.params, params)

SomeEntryMatches(entries, term_name, params) ==
    \E i \in DOMAIN entries : Matches(entries[i], term_name, params)

NewEntry(c, k) == [uid |-> k, name |-> c[2], params |-> c[3]]

----------------------------------------------------------------------------
\* C1: for every order and registered form, two add_parameters calls in a
\* row with the same name and parameters and no uid both return, return the
\* same uid, and the order has one entry more after them when no entry
\* matched the parameters before, and as many as before when one did.
C1_TwiceSameUid ==
    \A c \in AutoAdds(functional_forms) :
        LET o == c[1]
            r1 == Call(functional_forms, terms, c)
            r2 == Call(functional_forms, r1.terms, c)
            grown == IF SomeEntryMatches(terms[o], c[2], c[3]) THEN 0 ELSE 1
        IN  /\ r1.status = "ok" /\ r2.status = "ok"
            /\ r1.value = r2.value
            /\ Len(r2.terms[o]) = Len(terms[o]) + grown

\* C2: when add_parameters is called without a uid and no entry of the order
\* matches, it stores the entry under the smallest non-negative integer that
\* is not a uid of the order, and returns that uid.
C2_SmallestUnusedUid ==
    \A c \in AutoAdds(functional_forms) :
        ~SomeEntryMatches(terms[c[1]], c[2], c[3]) =>
        LET o == c[1]
            r == Call(functional_forms, terms, c)
            k == SmallestUnused(Uids(terms[o]))
        IN  /\ r.status = "ok" /\ r.value = <<k>>
            /\ r.terms = [terms EXCEPT ![o] = Append(@, NewEntry(c, k))]

----------------------------------------------------------------------------
----------------------------------------------------------------------------
\* C4: add_parameters with a uid that is in use for the order fails with the
\* conflict error when the entry under that uid does not match the supplied
\* name and parameters, and returns the uid when it matches; either way the
\* stored entries are unchanged.
C4_UidInUse ==
    \A c \in UidAdds(functional_forms) : c[4][1] \in Uids(terms[c[1]]) =>
        LET r == Call(functional_forms, terms, c)
            old == EntryOf(terms[c[1]], c[4][1])
        IN  /\ r.terms = terms
            /\ IF Matches(old, c[2], c[3])
               THEN r.status = "ok" /\ r.value = c[4]
               ELSE r.status = "Conflict"

\* C5: add_parameters with an integer uid that is not in use for the order
\* stores the entry under that uid and returns it, also when an entry with
\* the same name and matching parameters exists under another uid.
C5_FreeUidStored ==
    \A c \in UidAdds(functional_forms) : c[4][1] \notin Uids(terms[c[1]]) =>
        LET r == Call(functional_forms, terms, c)
        IN  /\ r.status = "ok" /\ r.value = c[4]
            /\ r.terms = [terms EXCEPT ![c[1]] = Append(@, NewEntry(c, c[4][1]))]

----------------------------------------------------------------------------
\* C6: add_parameters for a name that is not registered for the order fails
\* with the not-registered error whatever the other arguments are, and
\* leaves the entries and the registry as they were; a call stores an entry
\* only for a name that is registered for the order.
C6_NotRegistered ==
    /\ [](\A c \in AddArgs :
            LET r == Call(functional_forms, terms, c)
            IN  /\ (c[1] \in Orders /\ c[2] \notin DOMAIN functional_forms[c[1]]) =>
                    r.status = "NotRegistered" /\ r.terms = terms
                /\ r.terms # terms =>
                    c[1] \in Orders /\ c[2] \in DOMAIN functional_forms[c[1]])
    /\ [][ret'.op = "add_parameters" => functional_forms' = functional_forms]_vars

\* a call for an unregistered name has failed on a store that holds entries
C6_Witness ==
    /\ ret.op = "add_parameters" /\ ret.status = "NotRegistered"
    /\ Len(terms[2]) > 0
    /\ \E o \in Orders : DOMAIN functional_forms[o] # Names

----------------------------------------------------------------------------
(* Vocabulary of the atom properties                                       *)

\* the properties whose values are shared by many atoms and indexed
Shared == {"mass", "atom_type"}

\* x rounded to the tolerance of a float property: the nearest multiple of
\* ten units, a half going to the even multiple
ToTolerance(x) ==
    CHOOSE y \in {10 * n : n \in (x \div 10) .. ((x \div 10) + 1)} :
        \/ Abs(x - y) < 5
        \/ Abs(x - y) = 5 /\ (y \div 10) % 2 = 0

\* the value row r of the history was given for property p, as the index
\* table sees it: in the canonical unit, a float rounded to the tolerance
Seen(p, r) ==
    LET canon == IF r.unit # None /\ p # "atom_type" THEN 10 * r.value ELSE r.value
    IN  IF p = "mass" THEN ToTolerance(canon) ELSE canon

History(p) == IF p \in DOMAIN added THEN added[p] ELSE << >>

\* every row of p was given by value / by value and without a unit
AllByValue(p) == \A i \in DOMAIN History(p) : History(p)[i].by_value
AllPlain(p) == \A i \in DOMAIN History(p) : History(p)[i].by_value /\ History(p)[i].unit = None

\* the atom of row i of p was given once
Once(p, i) ==
    \A j \in DOMAIN History(p) :
        History(p)[j].atom_index = History(p)[i].atom_index => j = i

\* the rows of p that the step gave by value
NewRows(p) ==
    LET old == IF p \in DOMAIN added THEN Len(added[p]) ELSE 0
        new == IF p \in DOMAIN added' THEN added'[p] ELSE << >>
    IN  {new[i] : i \in {j \in DOMAIN new : j > old /\ new[j].by_value}}

IndexTables == DOMAIN atom_metadata

----------------------------------------------------------------------------
\* C7: in every state of an index table uvals and inv_uvals are inverses of
\* each other and hold every value that was stored by value; a value keeps
\* the id it was first given, and a call adds an id for exactly the values
\* it gives that were not known.
C7_Bijection ==
    /\ [](\A p \in IndexTables :
            LET t == atom_metadata[p]
            IN  /\ \A v \in DOMAIN t.uvals :
                    t.uvals[v] \in DOMAIN t.inv_uvals /\ t.inv_uvals[t.uvals[v]] = v
                /\ \A i \in DOMAIN t.inv_uvals :
                    t.inv_uvals[i] \in DOMAIN t.uvals /\ t.uvals[t.inv_uvals[i]] = i
                /\ p \in Shared =>
                    \A n \in DOMAIN History(p) :
                        History(p)[n].by_value => Seen(p, History(p)[n]) \in DOMAIN t.uvals)
    /\ [][\A p \in IndexTables :
            LET t == atom_metadata[p]
                u == atom_metadata'[p]
            IN  /\ p \in DOMAIN atom_metadata'
                /\ \A v \in DOMAIN t.uvals : v \in DOMAIN u.uvals /\ u.uvals[v] = t.uvals[v]
                /\ DOMAIN u.uvals =
                      DOMAIN t.uvals \cup
                      (IF p \in Shared THEN {Seen(p, r) : r \in NewRows(p)} ELSE {})
         ]_vars

\* a later call has given a known mass again, and two masses are known
C7_Witness ==
    /\ ret.op = "add_atoms" /\ ret.status = "ok"
    /\ "mass" \in IndexTables
    /\ Cardinality(DOMAIN atom_metadata["mass"].uvals) = 2
    /\ Len(History("mass")) = 3
    /\ Seen("mass", History("mass")[3]) = Seen("mass", History("mass")[1])
    /\ Seen("mass", History("mass")[2]) # Seen("mass", History("mass")[1])

----------------------------------------------------------------------------
\* C8: the counter of an index table is -1 while it has no id, never
\* decreases, and is the highest id given; the ids given are exactly
\* 0 .. counter, one per distinct value, and a new value gets an id above
\* the counter while the ids given before stay with their values.
C8_Counter ==
    /\ [](\A p \in IndexTables :
            LET t == atom_metadata[p]
            IN  /\ t.counter >= -1
                /\ DOMAIN t.inv_uvals = 0 .. t.counter
                /\ {t.uvals[v] : v \in DOMAIN t.uvals} = 0 .. t.counter
                /\ t.counter = Cardinality(DOMAIN t.uvals) - 1)
    /\ [][\A p \in IndexTables :
            LET t == atom_metadata[p]
                u == atom_metadata'[p]
            IN  /\ u.counter >= t.counter
                /\ \A i \in DOMAIN t.inv_uvals : u.inv_uvals[i] = t.inv_uvals[i]
                /\ \A v \in (DOMAIN u.uvals) \ (DOMAIN t.uvals) : u.uvals[v] > t.counter
         ]_vars

\* one table has given the ids 0 and 1 and another has given none
C8_Witness ==
    /\ ret.op = "add_atoms"
    /\ \E p \in IndexTables : atom_metadata[p].counter = 1
    /\ \E p \in IndexTables : atom_metadata[p].counter = -1

----------------------------------------------------------------------------
\* C9: when the rows of a shared property were all stored by value, reading
\* it by index returns one row per row stored, with its atom index and the
\* id the store holds (not the value); two atoms that were given once have
\* the same id exactly when their values are equal after rounding, and when
\* every atom was given once there are as many ids as rounded values.
C9_ReadByIndex ==
    \A p \in Shared : (p \in DOMAIN added /\ AllByValue(p)) =>
        LET r == GetAtoms(atom_metadata, store, <<p>>, FALSE, NoUtype)
            h == History(p)
            t == r.value[1]
        IN  /\ r.status = "ok"
            /\ Len(t) = Len(h)
            /\ \A i \in DOMAIN t :
                /\ t[i].atom_index = h[i].atom_index
                /\ t[i].data[p] = store[p][i].value
                /\ t[i].data[p] \in DOMAIN atom_metadata[p].inv_uvals
            /\ \A i, j \in DOMAIN t : (Once(p, i) /\ Once(p, j)) =>
                (t[i].data[p] = t[j].data[p] <=> Seen(p, h[i]) = Seen(p, h[j]))
            /\ (\A i \in DOMAIN t : Once(p, i)) =>
                Cardinality({t[i].data[p] : i \in DOMAIN t}) =
                Cardinality({Seen(p, h[i]) : i \in DOMAIN h})

\* three atoms were given masses by value, two of them equal after rounding
C9_Witness ==
    /\ ret.op = "get_atoms" /\ ret.status = "ok"
    /\ AllByValue("mass") /\ Len(History("mass")) = 3
    /\ \A i \in 1 .. 3 : Once("mass", i)
    /\ History("mass")[1].value # History("mass")[2].value
    /\ Cardinality({Seen("mass", History("mass")[i]) : i \in 1 .. 3}) = 2
    /\ Len(ret.value[1]) = 3
    /\ \A i \in 1 .. 3 : ret.value[1][i].data = [mass |-> store["mass"][i].value]

----------------------------------------------------------------------------
\* C10: when the rows of a property were all stored by value and without a
\* unit, reading it by value and without a unit returns one row per row
\* stored, with its atom index, and for an atom given once the value given
\* for it (a shared float rounded to the tolerance).
C10_RoundTrip ==
    \A p \in Properties : (p \in DOMAIN added /\ AllPlain(p)) =>
        LET r == GetAtoms(atom_metadata, store, <<p>>, TRUE, NoUtype)
            h == History(p)
            t == r.value[1]
        IN  /\ r.status = "ok"
            /\ Len(t) = Len(h)
            /\ \A i \in DOMAIN t :
                /\ t[i].atom_index = h[i].atom_index
                /\ Once(p, i) => /\ t[i].data[p] = Seen(p, h[i])
                                 /\ Abs(t[i].data[p] - h[i].value) <= 5

\* masses given in two calls, two atoms sharing one, have been read by value
C10_Witness ==
    /\ ret.op = "get_atoms" /\ ret.status = "ok"
    /\ AllPlain("mass") /\ Len(History("mass")) = 3
    /\ \A i \in 1 .. 3 : Once("mass", i)
    /\ atom_metadata["mass"].counter = 1
    /\ atom_metadata["mass"].uvals[20] = 0
    /\ Len(ret.value[1]) = 3
    /\ \A i \in 1 .. 3 : ret.value[1][i].data = [mass |-> Seen("mass", History("mass")[i])]
    /\ ret.value[1][1].data = ret.value[1][3].data
    /\ ret.value[1][1].data # ret.value[1][2].data

----------------------------------------------------------------------------
\* the properties all of whose columns the frame has
Matched(atom_df) == {k \in Properties : APC_DICT[k] \subseteq atom_df.columns}

\* the rows of table k in the store st
TableOf(st, k) == IF k \in DOMAIN st THEN st[k] ELSE << >>

\* the calls of add_atoms that pass a frame indexed by atom_index and a
\* unit map or none
FrameAdds ==
    {c \in AddAtomCalls :
        c[1].kind = "DataFrame" /\ c[1].index = "atom_index" /\ c[3].kind # "other"}

\* C11: add_atoms on a frame indexed by atom_index returns true and adds the
\* rows to the table of exactly the properties all of whose columns the
\* frame has, whatever other columns it has; when there is no such property
\* it fails with the no-key-matched error and leaves the store and the
\* index tables as they were.
C11_StoresMatched ==
    \A c \in FrameAdds :
        LET r == AddAtoms(atom_metadata, store, c[1], c[2], c[3])
            n == Len(c[1].rows)
        IN  IF Matched(c[1]) = {}
            THEN /\ r.status = "NoKeyMatched"
                 /\ r.st = store /\ r.am = atom_metadata
            ELSE /\ r.status = "ok" /\ r.value = Some(TRUE)
                 /\ DOMAIN r.st = (DOMAIN store) \cup Matched(c[1])
                 /\ \A k \in DOMAIN r.st :
                     /\ Len(r.st[k]) = Len(TableOf(store, k)) + (IF k \in Matched(c[1]) THEN n ELSE 0)
                     /\ SubSeq(r.st[k], 1, Len(TableOf(store, k))) = TableOf(store, k)
                     /\ k \in Matched(c[1]) =>
                         \A i \in 1 .. n :
                             r.st[k][Len(TableOf(store, k)) + i].atom_index = c[1].rows[i].atom_index
                 /\ \A k \in (DOMAIN atom_metadata) \ Matched(c[1]) :
                     k \in DOMAIN r.am /\ r.am[k] = atom_metadata[k]

\* a frame with the columns of two properties and one more column has been
\* stored, and then a frame that matches no property was refused
C11_Witness ==
    /\ ret.op = "add_atoms" /\ ret.status = "NoKeyMatched"
    /\ DOMAIN store = {"mass", "xyz"}
    /\ Len(store["mass"]) = 1 /\ Len(store["xyz"]) = 1

----------------------------------------------------------------------------
\* requests of get_atoms that name properties the layer does not know
BadRequests ==
    {<<"mass", "bogus1", "bogus2">>, <<"bogus2">>, <<"bogus1", "xyz", "MASS">>,
     <<"atom_type", "bogus2", "bogus1", "bogus2">>}
        \X BOOLEAN
        \X {NoUtype, DictUtype([mass |-> "small"]), [kind |-> "other", map |-> << >>]}

\* C12: get_atoms for a list of names of which some are not properties fails
\* with the one error that names every unknown name of the list, whatever
\* tables the store has and whatever the other names and arguments are; and
\* no call of get_atoms changes the layer.
C12_NamesEveryInvalid ==
    /\ [](\A c \in BadRequests :
            LET r == GetAtoms(atom_metadata, store, c[1], c[2], c[3])
            IN  /\ r.status = "UnknownProperty"
                /\ r.value = Some({c[1][n] : n \in DOMAIN c[1]} \ (Properties \cup {"MASS"})))
    /\ [][ret'.op = "get_atoms" =>
            UNCHANGED <<functional_forms, terms, atom_metadata, store, added, closed, closes>>]_vars

\* a request with mass and two unknown names was refused while the store
\* had a table of masses
C12_Witness ==
    /\ ret.op = "get_atoms" /\ ret.status = "UnknownProperty"
    /\ ret.value = Some({"bogus1", "bogus2"})
    /\ "mass" \in DOMAIN store

----------------------------------------------------------------------------
(* Vocabulary of the registry                                              *)

\* what the call c of register_functional_forms does to the registry ff
RegCall(ff, c) == RegisterFunctionalForms(ff, c[1], c[2], c[3], c[4])

\* calls that pass a well-shaped form, with units or without
ExplicitRegs == Orders \X Names \X {<<Form1>>, <<Form3>>} \X {None, <<"kcal">>}

\* calls that pass no form but units
BuiltinRegs == Orders \X Names \X {None} \X {<<"kcal">>, <<"kJ">>}

\* calls that pass neither
EmptyRegs == (Orders \cup {BadOrder}) \X Names \X {None} \X {None}

Registered(ff, o, n) == n \in DOMAIN ff[o]

\* the registry g is ff with f registered under (o, n) and all else as in ff
RegistryWith(g, ff, o, n, f) ==
    /\ DOMAIN g = DOMAIN ff
    /\ \A p \in (DOMAIN ff) \ {o} : g[p] = ff[p]
    /\ DOMAIN g[o] = (DOMAIN ff[o]) \cup {n}
    /\ g[o][n] = f
    /\ \A m \in (DOMAIN ff[o]) \ {n} : g[o][m] = ff[o][m]

\* C13: register_functional_forms with a form registers it under
\* (order, name) when the name is not registered for the order, and fails
\* with the already-registered error, the registry staying as it was, when
\* the name is registered for the order.
C13_ExplicitOnce ==
    \A c \in ExplicitRegs :
        LET r == RegCall(functional_forms, c)
        IN  IF Registered(functional_forms, c[1], c[2])
            THEN r.status = "AlreadyRegistered" /\ r.forms = functional_forms
            ELSE r.status = "ok" /\ RegistryWith(r.forms, functional_forms, c[1], c[2], c[3][1])

\* a form was given for a name that a form had been registered for
C13_Witness ==
    /\ ret.op = "register_functional_forms" /\ ret.status = "AlreadyRegistered"
    /\ Registered(functional_forms, 2, "custom")
    /\ functional_forms[2]["custom"] = Form1

----------------------------------------------------------------------------
\* the catalog form of (o, n) with the unit map u attached
CatalogForm(o, n, u) == [parameters |-> BuiltinForms[o][n].parameters, units |-> u]

\* C14: register_functional_forms with units and no form fails with the
\* not-found error, the registry staying as it was, when the catalog has no
\* form (order, name); otherwise it registers the catalog form with the
\* units attached, and a second such call with other units succeeds and
\* replaces it.  A call with neither a form nor units fails and leaves the
\* registry as it was.
C14_BuiltinPath ==
    /\ \A c \in BuiltinRegs :
        LET o == c[1]
            n == c[2]
            r == RegCall(functional_forms, c)
        IN  IF n \notin DOMAIN BuiltinForms[o]
            THEN r.status = "NotFound" /\ r.forms = functional_forms
            ELSE /\ r.status = "ok"
                 /\ RegistryWith(r.forms, functional_forms, o, n, CatalogForm(o, n, c[4][1]))
                 /\ \A d \in BuiltinRegs : (d[1] = o /\ d[2] = n) =>
                     LET r2 == RegCall(r.forms, d)
                     IN  /\ r2.status = "ok"
                         /\ RegistryWith(r2.forms, r.forms, o, n, CatalogForm(o, n, d[4][1]))
    /\ \A c \in EmptyRegs :
        LET r == RegCall(functional_forms, c)
        IN  r.status \in {"NoFormNoUnits", "OrderKeyError"} /\ r.forms = functional_forms

\* the built-in form has been registered with a unit map and parameters were
\* stored for it
C14_Witness ==
    /\ ret.op = "register_functional_forms" /\ ret.status = "ok"
    /\ Registered(functional_forms, 2, "harmonic")
    /\ functional_forms[2]["harmonic"] = CatalogForm(2, "harmonic", "kJ")
    /\ \E i \in DOMAIN terms[2] :
        terms[2][i].name = "harmonic" /\ Len(terms[2][i].params) = 2

----------------------------------------------------------------------------
\* (o, n) is registered, and by a call that passed a form / that passed
\* units only: the forms the calls pass have units "own", the catalog forms
\* carry the unit map of the call
ViaExplicit(ff, o, n) == Registered(ff, o, n) /\ ff[o][n].units = "own"
ViaBuiltin(ff, o, n) == Registered(ff, o, n) /\ ff[o][n].units # "own"

\* C15 as stated: a name registered through the built-in path can be
\* registered with a form afterwards, and a name registered with a form can
\* be registered through the built-in path afterwards, neither call failing
\* with the already-registered error.
C15_OtherPathAllowed ==
    /\ \A c \in ExplicitRegs : ViaBuiltin(functional_forms, c[1], c[2]) =>
        RegCall(functional_forms, c).status # "AlreadyRegistered"
    /\ \A c \in BuiltinRegs : ViaExplicit(functional_forms, c[1], c[2]) =>
        RegCall(functional_forms, c).status # "AlreadyRegistered"

\* C15 as amended: a name that is registered, through either path, cannot be
\* registered with a form afterwards: the call fails with the
\* already-registered error; it can be registered through the built-in path
\* afterwards, which never fails with the already-registered error and
\* replaces the registration when the catalog has the form.
C15_ExplicitBlocked ==
    \A o \in Orders : \A n \in Names :
        (ViaExplicit(functional_forms, o, n) \/ ViaBuiltin(functional_forms, o, n)) =>
            /\ \A c \in ExplicitRegs : (c[1] = o /\ c[2] = n) =>
                LET r == RegCall(functional_forms, c)
                IN  r.status = "AlreadyRegistered" /\ r.forms = functional_forms
            /\ \A c \in BuiltinRegs : (c[1] = o /\ c[2] = n) =>
                LET r == RegCall(functional_forms, c)
                IN  /\ r.status # "AlreadyRegistered"
                    /\ n \in DOMAIN BuiltinForms[o] =>
                        r.status = "ok" /\ r.forms[o][n] = CatalogForm(o, n, c[4][1])

\* a form with three parameters was registered and used, the built-in form
\* replaced it, and a call with a form was then refused
C15_Witness ==
    /\ ret.op = "register_functional_forms" /\ ret.status = "AlreadyRegistered"
    /\ ViaBuiltin(functional_forms, 2, "harmonic")
    /\ \E i \in DOMAIN terms[2] :
        terms[2][i].name = "harmonic" /\ Len(terms[2][i].params) = 3

----------------------------------------------------------------------------
\* C16: a name that is registered for an order is registered for it in every
\* later state: no step of register_functional_forms, add_parameters,
\* add_atoms, get_atoms, add_terms, read_terms, get_bonds, get_angles or
\* close, failing or not, takes a name or an order out of the registry.
C16_RegistrationPermanent ==
    [][/\ DOMAIN functional_forms' = DOMAIN functional_forms
       /\ \A o \in DOMAIN functional_forms :
            \A n \in DOMAIN functional_forms[o] : Registered(functional_forms', o, n)
      ]_vars

\* two names are registered after parameters, atoms and terms were stored,
\* a registration was refused and the layer was closed
C16_Witness ==
    /\ Registered(functional_forms, 2, "harmonic") /\ Registered(functional_forms, 3, "custom")
    /\ Len(terms[2]) > 0
    /\ {"mass", "term2"} \subseteq DOMAIN store
    /\ closed
    /\ ret.op = "register_functional_forms" /\ ret.status = "AlreadyRegistered"

----------------------------------------------------------------------------
(* Vocabulary of the term tables                                           *)

\* the atom-index columns a table of an order must have
RequiredColumns(o) == IF o = 2 THEN {"atom1", "atom2"} ELSE {"atom1", "atom2", "atom3"}

\* the calls of add_terms for an order of the layer
OrderAdds == {c \in AddTermCalls : c[1] \in Orders}

\* C17: add_terms for an order of the layer fails with the missing-columns
\* error when the input lacks an atom-index column of the order, fails as
\* not implemented when it has them all but no term_index column, and
\* stores the rows in the table of the order otherwise; a call that fails
\* writes nothing to the store, and no call changes the parameter entries.
C17_TermColumns ==
    /\ [](\A c \in OrderAdds :
            LET r == AddTerms(functional_forms, store, c[1], c[2])
                k == TermTable(c[1])
            IN  IF ~(RequiredColumns(c[1]) \subseteq c[2].columns)
                THEN r.status = "MissingColumns" /\ r.st = store
                ELSE IF "term_index" \notin c[2].columns
                THEN r.status = "NotImplemented" /\ r.st = store
                ELSE /\ r.status = "ok"
                     /\ Len(r.st[k]) = Len(TableOf(store, k)) + Len(c[2].rows)
                     /\ \A t \in DOMAIN store : t # k => (t \in DOMAIN r.st /\ r.st[t] = store[t]))
    /\ [][ret'.op = "add_terms" =>
            /\ terms' = terms /\ atom_metadata' = atom_metadata
            /\ ret'.status # "ok" => store' = store
         ]_vars

\* an input without term_index was refused while bonds and parameters were stored
C17_Witness ==
    /\ ret.op = "add_terms" /\ ret.status = "NotImplemented"
    /\ "term2" \in DOMAIN store
    /\ Len(terms[2]) > 0

----------------------------------------------------------------------------
\* the rows read are the rows given, cut to the required columns and term_index
SameTerms(o, read, given) ==
    /\ Len(read) = Len(given)
    /\ \A i \in DOMAIN read :
        /\ DOMAIN read[i] = RequiredColumns(o) \cup {"term_index"}
        /\ \A c \in DOMAIN read[i] : read[i][c] = given[i][c]

\* C18: once add_terms has stored rows for an order, read_terms of the order
\* returns one row per row given, in the order given, with the atom indices
\* and the term_index given and no other column, whether or not a parameter
\* entry has that term_index as uid; get_bonds and get_angles return what
\* read_terms returns for the orders 2 and 3.
C18_ReadTerms ==
    /\ \A o \in Orders : TermTable(o) \in DOMAIN added =>
        LET r == ReadTerms(functional_forms, store, o)
        IN  /\ r.status = "ok"
            /\ SameTerms(o, r.value[1], added[TermTable(o)])
            /\ r.value[1] = store[TermTable(o)]
    /\ GetBonds(functional_forms, store) = ReadTerms(functional_forms, store, 2)
    /\ GetAngles(functional_forms, store) = ReadTerms(functional_forms, store, 3)

\* get_bonds has returned two bonds given in two calls, one whose term_index
\* is the uid of a parameter entry and one whose term_index is no uid
C18_Witness ==
    /\ ret.op = "get_bonds" /\ ret.status = "ok"
    /\ Len(ret.value[1]) = 2
    /\ ret.value[1][1]["term_index"] \in Uids(terms[2])
    /\ ret.value[1][2]["term_index"] \notin Uids(terms[2])
    /\ ret.value[1][1]["atom1"] # ret.value[1][2]["atom1"]

----------------------------------------------------------------------------
\* the calls of add_atoms that store masses by value
MassAdds == {c \in FrameAdds : "mass" \in c[1].columns /\ c[2]}

\* the masses of the rows of the call c as the index table sees them
GivenMasses(c) ==
    [i \in DOMAIN c[1].rows |->
        Seen("mass", [value |-> c[1].rows[i].value, unit |-> Uval(c[3], "mass")])]

\* the ids of the masses before the call
KnownMasses == IF "mass" \in DOMAIN atom_metadata THEN atom_metadata["mass"].uvals ELSE << >>

\* C19 as stated: of two masses that a call of add_atoms gives and that are
\* both new, the one that comes first in the rows of the call gets the
\* smaller id; and a mass known before the call has a smaller id than a new
\* one.
C19_FirstSeenOrder ==
    \A c \in MassAdds :
        LET u == AddAtoms(atom_metadata, store, c[1], c[2], c[3]).am["mass"].uvals
            g == GivenMasses(c)
            first(v) == Min({i \in DOMAIN g : g[i] = v})
        IN  /\ \A i, j \in DOMAIN g :
                (g[i] \notin DOMAIN KnownMasses /\ g[j] \notin DOMAIN KnownMasses
                 /\ first(g[i]) < first(g[j])) => u[g[i]] < u[g[j]]
            /\ \A v \in DOMAIN KnownMasses : \A i \in DOMAIN g :
                g[i] \notin DOMAIN KnownMasses => u[v] < u[g[i]]

\* C19 as amended: a mass known before the call has a smaller id than a mass
\* that is new in the call, and of two masses that are both new in one call
\* the smaller one gets the smaller id, wherever they are in the rows.
C19_PassThenValueOrder ==
    \A c \in MassAdds :
        LET u == AddAtoms(atom_metadata, store, c[1], c[2], c[3]).am["mass"].uvals
            g == GivenMasses(c)
        IN  /\ \A i, j \in DOMAIN g :
                (g[i] \notin DOMAIN KnownMasses /\ g[j] \notin DOMAIN KnownMasses
                 /\ g[i] < g[j]) => u[g[i]] < u[g[j]]
            /\ \A v \in DOMAIN KnownMasses : \A i \in DOMAIN g :
                g[i] \notin DOMAIN KnownMasses => u[v] < u[g[i]]

\* one call gave the mass 20 before the mass 10, and 10 has the id 0
C19_Witness ==
    /\ ret.op = "add_atoms" /\ ret.status = "ok"
    /\ AllByValue("mass") /\ Len(History("mass")) = 2
    /\ Seen("mass", History("mass")[1]) = 20 /\ Seen("mass", History("mass")[2]) = 10
    /\ atom_metadata["mass"].uvals[10] = 0 /\ atom_metadata["mass"].uvals[20] = 1

----------------------------------------------------------------------------
----------------------------------------------------------------------------
\* the parameter uids that the stored terms of order o refer to
UidsInUse(o) ==
    {TableOf(store, TermTable(o))[i]["term_index"] : i \in DOMAIN TableOf(store, TermTable(o))}

\* C21: in the count block of write_lammps_file the counts of bond types,
\* angle types and dihedral types are the numbers of distinct parameter
\* uids in use for the orders 2, 3 and 4.
C21_TypeCounts ==
    LET sizes == WriteSizes(store)
    IN  /\ sizes.bond_types = Cardinality(UidsInUse(2))
        /\ sizes.angle_types = Cardinality(UidsInUse(3))
        /\ sizes.dihedral_types = Cardinality(UidsInUse(4))

----------------------------------------------------------------------------
\* the entries of an order have the uids 0 .. n-1, in the order they were stored
UidsInOrder(entries) == \A i \in DOMAIN entries : entries[i].uid = i - 1

\* C22 as stated: when add_parameters is never given a uid, the uids of an
\* order are 0 .. n-1 for its n entries, given out in increasing order, and
\* no two entries of the order have the same name and parameters of which
\* the match test accepts one as the other.
C22_NoTwoMatch ==
    \A o \in Orders :
        /\ Uids(terms[o]) = 0 .. (Len(terms[o]) - 1)
        /\ UidsInOrder(terms[o])
        /\ \A i, j \in DOMAIN terms[o] : i # j =>
            ~Matches(terms[o][i], terms[o][j].name, terms[o][j].params)

\* C22 as amended: when add_parameters is never given a uid, the uids of an
\* order are 0 .. n-1 for its n entries, given out in increasing order, and
\* the match test does not accept an entry as a match for the name and
\* parameters of an entry stored after it.
C22_NoEarlierMatch ==
    \A o \in Orders :
        /\ Uids(terms[o]) = 0 .. (Len(terms[o]) - 1)
        /\ UidsInOrder(terms[o])
        /\ \A i, j \in DOMAIN terms[o] : i < j =>
            ~Matches(terms[o][i], terms[o][j].name, terms[o][j].params)

\* 1.00001 was stored before 0.99999: the second is no match for the first
\* when it comes, and the first would be a match for the second
C22_Witness ==
    /\ ret.op = "add_parameters" /\ ret.value = <<1>>
    /\ Len(terms[2]) = 2
    /\ terms[2][1].name = terms[2][2].name
    /\ ~Matches(terms[2][1], terms[2][2].name, terms[2][2].params)
    /\ Matches(terms[2][2], terms[2][1].name, terms[2][1].params)

----------------------------------------------------------------------------
\* every uid of the entries old has in new the name and parameters it has in old
KeepsEntries(old, new) ==
    /\ Len(new) >= Len(old)
    /\ \A i \in DOMAIN old : new[i] = old[i]
    /\ Cardinality(Uids(new)) = Len(new)
    /\ \A u \in Uids(old) : u \in Uids(new) /\ EntryOf(new, u) = EntryOf(old, u)

\* C23: whatever add_parameters is called with, and whether it returns or
\* fails, every uid of every order keeps the name and parameters stored
\* under it, and the entries of the orders other than the one of the call
\* are as they were; no other step changes an entry either.
C23_EntriesKept ==
    /\ [](\A c \in AddCalls :
            LET r == Call(functional_forms, terms, c)
            IN  /\ DOMAIN r.terms = DOMAIN terms
                /\ \A o \in Orders :
                    IF o = c[1] /\ r.status = "ok"
                    THEN KeepsEntries(terms[o], r.terms[o])
                    ELSE r.terms[o] = terms[o])
    /\ [][\A o \in Orders : KeepsEntries(terms[o], terms'[o])]_vars

\* a call with a uid in use and other parameters was refused while both
\* orders held entries
C23_Witness ==
    /\ ret.op = "add_parameters" /\ ret.status = "Conflict"
    /\ Len(terms[2]) > 0 /\ Len(terms[3]) > 0

----------------------------------------------------------------------------
\* the names the entries of an order are stored under
StoredNames(tt, o) == {tt[o][i].name : i \in DOMAIN tt[o]}

\* C24: in every reachable state, and after any further add_parameters
\* call, every stored entry of an order carries a form name that is
\* registered for that same order.
C24_StoredNamesRegistered ==
    /\ \A o \in Orders :
        \A i \in DOMAIN terms[o] : Registered(functional_forms, o, terms[o][i].name)
    /\ \A c \in AddCalls :
        LET r == Call(functional_forms, terms, c)
        IN  \A o \in Orders :
                \A n \in StoredNames(r.terms, o) : Registered(functional_forms, o, n)

\* both orders hold entries, under names each registered for its own
\* order only
C24_Witness ==
    /\ StoredNames(terms, 2) = {"harmonic"}
    /\ StoredNames(terms, 3) = {"custom"}
    /\ ~Registered(functional_forms, 2, "custom")
    /\ ~Registered(functional_forms, 3, "harmonic")

====
